---------------------------- MODULE Spec2Model ----------------------------
(***************************************************************************)
(* brpc CircuitBreaker (src/src/brpc/circuit_breaker.cpp).                 *)
(*                                                                         *)
(* A CircuitBreaker owns two EmaErrorRecorder objects, _long_window and    *)
(* _short_window.  Threads call CircuitBreaker::OnCallEnd and              *)
(* CircuitBreaker::Reset concurrently; every access to a recorder field is *)
(* one atomic operation, and one action of this module is one such atomic  *)
(* operation together with the thread-local computation that follows it.   *)
(* The atomics are interleaved sequentially consistently.                  *)
(*                                                                         *)
(* Arithmetic.  _smooth = pow(0.1, 1.0/window_size) is a double; it is     *)
(* held as parts per SmoothDen and every double expression of the source   *)
(* is evaluated exactly on these rationals and truncated where the source  *)
(* converts to int64_t.  int64_t values stay far below 2^63 in every       *)
(* specification of this module; the 32-bit _sample_count wraps.           *)
(***************************************************************************)
EXTENDS Integers, Sequences, FiniteSets, TLC

(***************************************************************************)
(* Bounds of the model.                                                    *)
(***************************************************************************)
\* Spec: calls of thread 1 (thread 2 makes one call and the Resets).
MaxCalls == 3
\* SpecSeq: one thread.
SeqCalls == 6
SeqResets == 2
\* SpecScenario: one thread, the configuration of the concrete scenario.
ScenarioCalls == 11
ScenarioResets == 1
\* SpecWrap: calls of thread 1 after 2^31 - 2 earlier ones.
WrapCalls == 2
\* SpecLive: calls of thread 1 (thread 2 makes one call and one Reset).
LiveCalls == 1

Threads == {1, 2}
Windows == {"long", "short"}

(***************************************************************************)
(* Program constants.                                                      *)
(***************************************************************************)
\* int _sample_count: the largest value of a 32-bit signed integer.
IntMax == 2147483647
\* _smooth is held in millionths.
SmoothDen == 1000000

\* The DEFINE_int32 flags.  They are settable at start-up; the model runs
\* the breaker with small windows so that warm-up ends within the bounds.
FlagsSmall ==
    [ circuit_breaker_short_window_size |-> 1,
      circuit_breaker_long_window_size |-> 2,
      circuit_breaker_short_window_error_percent |-> 50,
      circuit_breaker_long_window_error_percent |-> 3,
      circuit_breaker_min_error_cost_us |-> 100,
      circuit_breaker_max_failed_latency_mutliple |-> 2 ]

\* The same with windows of 3 and 2 samples and a loose short window.
FlagsSeq ==
    [ circuit_breaker_short_window_size |-> 2,
      circuit_breaker_long_window_size |-> 3,
      circuit_breaker_short_window_error_percent |-> 99,
      circuit_breaker_long_window_error_percent |-> 3,
      circuit_breaker_min_error_cost_us |-> 100,
      circuit_breaker_max_failed_latency_mutliple |-> 2 ]

\* The flags of the concrete scenario: window 10, 10 percent, floor 1.
FlagsScenario ==
    [ circuit_breaker_short_window_size |-> 10,
      circuit_breaker_long_window_size |-> 10,
      circuit_breaker_short_window_error_percent |-> 10,
      circuit_breaker_long_window_error_percent |-> 10,
      circuit_breaker_min_error_cost_us |-> 1,
      circuit_breaker_max_failed_latency_mutliple |-> 2 ]

\* (error_code, latency) pairs the RPC layer reports.
InputsSmall == { <<0, 100>>, <<1, 1000>> }
InputsSeq == { <<0, 40>>, <<0, 100>>, <<1, 0>>, <<1, 1000>> }
InputsScenario == { <<0, 100>>, <<1, 10000>> }

VARIABLES
    flags,      \* the FLAGS_circuit_breaker_* values
    rec,        \* rec[w]: the fields of _long_window / _short_window
    thr,        \* thr[t]: what thread t is executing, and its locals
    env,        \* what the callers may still do: inputs and budgets
    hist        \* history of each recorder and of the breaker

vars == << flags, rec, thr, env, hist >>

(***************************************************************************)
(* Pure computations of the source.                                        *)
(***************************************************************************)
Min(a, b) == IF a <= b THEN a ELSE b

\* _smooth(std::pow(EPSILON, 1.0/window_size)), in millionths, truncated.
SmoothPpm(window_size) ==
    CASE window_size = 1 -> 100000
      [] window_size = 2 -> 316227
      [] window_size = 3 -> 464158
      [] window_size = 4 -> 562341
      [] window_size = 10 -> 794328

\* The constructor EmaErrorRecorder(window_size, max_error_percent).
NewRecorder(window_size, max_error_percent) ==
    [ window_size |-> window_size,
      max_error_percent |-> max_error_percent,
      smooth |-> SmoothPpm(window_size),
      init_completed |-> FALSE,
      sample_count |-> 0,
      ema_error_cost |-> 0,
      ema_latency |-> 0,
      broken |-> FALSE ]

\* CircuitBreaker::CircuitBreaker().
NewBreaker(f) ==
    [ w \in Windows |->
        IF w = "long"
        THEN NewRecorder(f.circuit_breaker_long_window_size,
                         f.circuit_breaker_long_window_error_percent)
        ELSE NewRecorder(f.circuit_breaker_short_window_size,
                         f.circuit_breaker_short_window_error_percent) ]

\* UpdateLatency: the value the CAS tries to install.
NextEmaLatency(ema_latency, latency, smooth) ==
    IF ema_latency = 0
    THEN latency
    ELSE (ema_latency * smooth + latency * (SmoothDen - smooth)) \div SmoothDen

\* Mutant: the ordinary response charged its latency as an error cost.
SuccessErrorCostLatency(latency) == latency

\* OnCallEnd, ordinary response: UpdateErrorCost(0, ema_latency).
SuccessErrorCost(latency) == 0

\* Mutant: the cost of a failure without the cap of ema_latency * max_mutilple.
ErrorCostNoCap(ema_latency, error_cost, max_mutilple) == error_cost

\* UpdateErrorCost: error_cost = std::min(ema_latency * max_mutilple, error_cost).
ErrorCost(ema_latency, error_cost, max_mutilple) ==
    Min(ema_latency * max_mutilple, error_cost)

\* Mutant: max_error_percent taken as a fraction, not divided by 100.
MaxErrorCostNoPercent(ema_latency, window_size, max_error_percent) ==
    (ema_latency * window_size * max_error_percent * 11) \div 10

\* UpdateErrorCost: max_error_cost, truncated to int64_t.  (1.0 + EPSILON) is 11/10.
MaxErrorCost(ema_latency, window_size, max_error_percent) ==
    (ema_latency * window_size * max_error_percent * 11) \div 1000

\* Mutant: the decay without "if (ema_error_cost < min_error_cost) next = 0".
NextEmaErrorCostNoFloor(ema_error_cost, smooth, min_error_cost) ==
    (ema_error_cost * smooth) \div SmoothDen

\* Mutant: the decay that leaves a value below min_error_cost as it is.
NextEmaErrorCostNoSnap(ema_error_cost, smooth, min_error_cost) ==
    IF ema_error_cost < min_error_cost
    THEN ema_error_cost
    ELSE (ema_error_cost * smooth) \div SmoothDen

\* UpdateErrorCost, ordinary response: the value the CAS tries to install.
NextEmaErrorCost(ema_error_cost, smooth, min_error_cost) ==
    IF ema_error_cost < min_error_cost
    THEN 0
    ELSE (ema_error_cost * smooth) \div SmoothDen

\* _sample_count.fetch_add(1) on a 32-bit signed atomic: wraps.
FetchAddInt32(x) == IF x = IntMax THEN (0 - IntMax) - 1 ELSE x + 1

\* Mutant: the count compared after the increment, not before it.
InitCompletedPostIncrement(init_completed, sample_count, window_size) ==
    init_completed \/ sample_count + 1 >= window_size

\* OnCallEnd: warm-up is over when the flag is set or this call sets it.
InitCompleted(init_completed, sample_count, window_size) ==
    init_completed \/ sample_count >= window_size

\* Mutant: the warm-up gate "if (!init_completed) return true;" left out.
VerdictNoWarmUp(init_completed, healthy) == healthy

\* OnCallEnd: "if (!init_completed) return true; ... return healthy;".
Verdict(init_completed, healthy) ==
    IF ~init_completed THEN TRUE ELSE healthy

\* Mutant: the test "if (_broken.load()) return false;" left out.
ShortCircuitNever(broken) == FALSE

\* OnCallEnd: "if (_broken.load()) return false;".
ShortCircuit(broken) == broken

\* Mutant: "&" for "&&": _short_window.OnCallEnd is always invoked.
CallsShortWindowAlways(long_result) == TRUE

\* CircuitBreaker::OnCallEnd: "&&" invokes _short_window only after true.
CallsShortWindow(long_result) == long_result

\* Mutant: "||" for "&&".
CombineOr(long_result, short_result) == long_result \/ short_result

\* CircuitBreaker::OnCallEnd: the value of "long && short" when both ran.
Combine(long_result, short_result) == long_result /\ short_result

\* Mutant: Reset without "_broken.store(false)".
ResetStoreKeepsBroken(r, field) ==
    CASE field = "init_completed" -> [r EXCEPT !.init_completed = FALSE]
      [] field = "sample_count" -> [r EXCEPT !.sample_count = 0]
      [] field = "ema_error_cost" -> [r EXCEPT !.ema_error_cost = 0]
      [] field = "ema_latency" -> [r EXCEPT !.ema_latency = 0]
      [] field = "broken" -> r

\* Mutant: Reset without "_sample_count.store(0)".
ResetStoreKeepsCount(r, field) ==
    CASE field = "init_completed" -> [r EXCEPT !.init_completed = FALSE]
      [] field = "sample_count" -> r
      [] field = "ema_error_cost" -> [r EXCEPT !.ema_error_cost = 0]
      [] field = "ema_latency" -> [r EXCEPT !.ema_latency = 0]
      [] field = "broken" -> [r EXCEPT !.broken = FALSE]

\* Mutant: a compare-and-retry loop that retries the exchange against the
\* value it loaded first, without loading again.
RetryNoReload(load_pc, cas_pc) == cas_pc

\* UpdateLatency, UpdateErrorCost: "while (true) { load; ...; if
\* (compare_exchange_weak(..)) ..; }": a failed exchange loads again.
Retry(load_pc, cas_pc) == load_pc

\* Reset: the value each of its five stores writes.
ResetStore(r, field) ==
    CASE field = "init_completed" -> [r EXCEPT !.init_completed = FALSE]
      [] field = "sample_count" -> [r EXCEPT !.sample_count = 0]
      [] field = "ema_error_cost" -> [r EXCEPT !.ema_error_cost = 0]
      [] field = "ema_latency" -> [r EXCEPT !.ema_latency = 0]
      [] field = "broken" -> [r EXCEPT !.broken = FALSE]


(***************************************************************************)
(* Threads.  pc names the next atomic operation of the thread.             *)
(***************************************************************************)
\* Inside EmaErrorRecorder::OnCallEnd ("ret": about to return).
CallPcs == { "load_broken", "lat_load", "lat_cas", "load_ema_latency",
             "cost_add", "cost_load", "cost_cas", "count_add", "load_init",
             "store_init", "store_broken", "ret" }
\* Inside EmaErrorRecorder::Reset ("rst_ret": about to return).
RstPcs == { "rst_init", "rst_count", "rst_cost", "rst_lat", "rst_broken",
            "rst_ret" }

\* History counters saturate here; every count a property reads is below it.
OrdCap == ScenarioCalls + 4

Merge(r, s) == [k \in DOMAIN r |-> IF k \in DOMAIN s THEN s[k] ELSE r[k]]

\* A thread outside CircuitBreaker.  The h_ fields are history.
IdleThread ==
    [ pc |-> "idle", win |-> "long",
      error_code |-> 0, latency |-> 0,          \* arguments of OnCallEnd
      ema_latency |-> 0, healthy |-> FALSE,     \* locals of OnCallEnd
      sample_count |-> 0, init_completed |-> FALSE,
      error_cost |-> 0, max_error_cost |-> 0,   \* locals of UpdateErrorCost
      expected |-> 0, next |-> 0,               \* locals of the CAS loops
      ret |-> TRUE,                             \* result of the recorder call
      long_done |-> FALSE, long_ret |-> TRUE,   \* left operand of "&&"
      short_done |-> FALSE, short_ret |-> TRUE, \* right operand of "&&"
      cb_ret |-> TRUE,                          \* result of CircuitBreaker::OnCallEnd
      h_ord |-> 0,          \* ordinal of this recorder call in its epoch
      h_raced |-> FALSE,    \* a Reset of the recorder overlapped this call
      h_after |-> FALSE,    \* began after a call returned false while no Reset
                            \* was executing, and no Reset was called since
      h_after_q |-> FALSE,  \* the same, no Reset having overlapped that call
      h_pre_cost |-> 0,     \* _ema_error_cost when this call began
      h_pre_latency |-> 0,  \* _ema_latency when this call began
      h_pre_broken |-> FALSE,   \* _broken when this call began
      h_read_broken |-> FALSE,  \* this call read _broken = true at line 66
      h_late |-> FALSE,     \* first failed call after call 10 of the epoch
      h_cb_raced |-> FALSE, h_cb_after |-> FALSE, h_cb_after_q |-> FALSE ]

OffThread == [IdleThread EXCEPT !.pc = "off"]

InCall(w) == \E u \in Threads : thr[u].pc \in CallPcs /\ thr[u].win = w
InReset(w) == \E u \in Threads : thr[u].pc \in RstPcs /\ thr[u].win = w
InCbCall == \E u \in Threads : thr[u].pc \in CallPcs \cup {"cb_ret"}
InCbReset == \E u \in Threads : thr[u].pc \in RstPcs

\* History of a recorder, at construction (r: the recorder).
NewHist(r) ==
    [ calls |-> 0,          \* OnCallEnd calls begun in this epoch
      clean |-> TRUE,       \* the epoch began with no call in flight, and no
                            \* Reset has overlapped a call since
      by_reset |-> FALSE,   \* the epoch began with a Reset
      resets |-> 0,         \* Resets completed since the last call, none raced
      was_broken |-> FALSE, \* _broken when the first of these Resets began
      once |-> r,           \* the recorder when the first of them returned
      all_success |-> TRUE, \* no failed call has begun since construction
      all_failed |-> TRUE,  \* no successful call has begun since construction
      tripped |-> FALSE,    \* a call returned false while no Reset was
                            \* executing, and no Reset was called since
      tripped_q |-> FALSE,  \* the same, no Reset having overlapped the call
      lead |-> 0,           \* leading calls of the epoch that were (0, 100)
      late_fails |-> 0,     \* failed calls begun after call 10 of the epoch
      decays |-> 0 ]        \* successful calls, since the last failed call or
                            \* Reset, that began with _ema_error_cost > 0

NewCbHist == [ tripped |-> FALSE, tripped_q |-> FALSE ]

(***************************************************************************)
(* Initial states.                                                         *)
(***************************************************************************)
\* calls[t], resets[t]: the operations thread t may still start.
InitWith(f, inputs, calls, resets) ==
    /\ flags = f
    /\ rec = NewBreaker(f)
    /\ thr = [t \in Threads |->
                IF calls[t] + resets[t] > 0 THEN IdleThread ELSE OffThread]
    /\ env = [inputs |-> inputs, calls |-> calls, resets |-> resets]
    /\ hist = [rec |-> [w \in Windows |-> NewHist(NewBreaker(f)[w])],
               cb |-> NewCbHist]

\* Thread 1 makes MaxCalls calls; beside it thread 2 makes one call, or one
\* Reset.
Init ==
    \/ InitWith(FlagsSmall, InputsSmall, <<MaxCalls, 1>>, <<0, 0>>)
    \/ InitWith(FlagsSmall, InputsSmall, <<MaxCalls, 0>>, <<0, 1>>)
InitSeq == InitWith(FlagsSeq, InputsSeq, <<SeqCalls, 0>>, <<SeqResets, 0>>)
\* Thread 1 makes LiveCalls calls; beside it thread 2 makes one call, or one
\* Reset.
InitLive ==
    \/ InitWith(FlagsSmall, InputsSmall, <<LiveCalls, 1>>, <<0, 0>>)
    \/ InitWith(FlagsSmall, InputsSmall, <<LiveCalls, 0>>, <<0, 1>>)
InitScenario ==
    InitWith(FlagsScenario, InputsScenario, <<ScenarioCalls, 0>>,
             <<ScenarioResets, 0>>)

\* The breaker after 2^31 - 2 sequential calls OnCallEnd(0, 0) since
\* construction: every call was an ordinary response with latency 0.
InitWrap ==
    /\ flags = FlagsSmall
    /\ rec = [w \in Windows |->
                [NewBreaker(FlagsSmall)[w] EXCEPT !.init_completed = TRUE,
                                                  !.sample_count = IntMax - 1]]
    /\ thr = [t \in Threads |-> IdleThread]
    /\ env = [inputs |-> InputsSmall, calls |-> <<WrapCalls, 1>>,
              resets |-> <<1, 0>>]
    /\ hist = [rec |-> [w \in Windows |->
                          [NewHist(rec[w]) EXCEPT !.calls = OrdCap]],
               cb |-> NewCbHist]

(***************************************************************************)
(* Helpers of the actions.                                                 *)
(***************************************************************************)
Sat(n) == Min(n + 1, OrdCap)

\* Thread t takes the step s (a record of the fields it changes).
Step(t, s) == thr' = [thr EXCEPT ![t] = Merge(@, s)]

\* What a thread does after UpdateLatency / the load of _ema_latency:
\* the first lines of UpdateErrorCost(error_cost, ema_latency).
EnterUpdateErrorCost(error_cost, ema_latency) ==
    LET c == ErrorCost(ema_latency, error_cost,
                       flags.circuit_breaker_max_failed_latency_mutliple)
    IN  [ ema_latency |-> ema_latency, error_cost |-> c,
          pc |-> IF c # 0 THEN "cost_add" ELSE "cost_load" ]

\* OnCallEnd once init_completed is known: store _broken, or return.
AfterWarmUpCheck(init_completed, healthy) ==
    IF init_completed /\ ~healthy
    THEN [ init_completed |-> init_completed, pc |-> "store_broken" ]
    ELSE [ init_completed |-> init_completed, pc |-> "ret",
           ret |-> Verdict(init_completed, healthy) ]

\* The frame of CircuitBreaker::OnCallEnd in the thread record r: the locals
\* of a recorder call do not outlive it.
Frame(r) ==
    Merge(IdleThread,
          [ pc |-> r.pc, win |-> r.win,
            error_code |-> r.error_code, latency |-> r.latency,
            long_done |-> r.long_done, long_ret |-> r.long_ret,
            short_done |-> r.short_done, short_ret |-> r.short_ret,
            cb_ret |-> r.cb_ret, h_cb_raced |-> r.h_cb_raced,
            h_cb_after |-> r.h_cb_after, h_cb_after_q |-> r.h_cb_after_q ])

\* Thread t (its record being r) invokes OnCallEnd on recorder w; hs is the
\* history so far.
BeginCall(t, r, w, hs) ==
    LET h == hs.rec[w]
        failed == r.error_code # 0
    IN  /\ thr' = [thr EXCEPT ![t] =
                Merge(Frame(r),
                         [ pc |-> "load_broken", win |-> w,
                           h_ord |-> Sat(h.calls),
                           h_raced |-> InReset(w),
                           h_after |-> h.tripped,
                           h_after_q |-> h.tripped_q,
                           h_pre_cost |-> rec[w].ema_error_cost,
                           h_pre_latency |-> rec[w].ema_latency,
                           h_pre_broken |-> rec[w].broken,
                           h_late |-> failed /\ h.calls >= 10 /\ h.late_fails = 0 ])]
        /\ hist' = [hs EXCEPT !.rec[w] =
                [ h EXCEPT !.calls = Sat(h.calls),
                           !.clean = h.clean /\ ~InReset(w),
                           !.resets = 0,
                           !.all_success = h.all_success /\ ~failed,
                           !.all_failed = h.all_failed /\ failed,
                           !.lead = IF h.lead = h.calls /\ ~failed /\ r.latency = 100
                                    THEN Sat(h.lead) ELSE h.lead,
                           !.late_fails = IF failed /\ h.calls >= 10
                                          THEN Min(h.late_fails + 1, 2)
                                          ELSE h.late_fails,
                           !.decays = IF failed THEN 0
                                      ELSE IF rec[w].ema_error_cost > 0
                                      THEN Min(h.decays + 1, 2)
                                      ELSE h.decays ]]

\* Thread t (its record being r) invokes Reset on recorder w; the calls in
\* flight on w are overlapped by it.  th is the other threads' state.
BeginReset(t, r, w, th, hs) ==
    /\ thr' = [u \in Threads |->
                IF u = t
                THEN Merge(r, [ pc |-> "rst_init", win |-> w ])
                ELSE IF th[u].pc \in CallPcs /\ th[u].win = w
                THEN Merge(th[u], [ h_raced |-> TRUE, h_after |-> FALSE,
                                    h_after_q |-> FALSE ])
                ELSE th[u]]
    /\ hist' = [hs EXCEPT !.rec[w] =
                [ @ EXCEPT !.calls = 0, !.clean = ~InCall(w),
                           !.was_broken = IF hs.rec[w].resets > 0 THEN @
                                          ELSE rec[w].broken,
                           !.by_reset = TRUE, !.tripped = FALSE,
                           !.tripped_q = FALSE, !.lead = 0, !.late_fails = 0,
                           !.decays = 0 ]]

(***************************************************************************)
(* CircuitBreaker::OnCallEnd(error_code, latency).                         *)
(***************************************************************************)
StartCall(t) ==
    /\ thr[t].pc = "idle"
    /\ env.calls[t] > 0
    /\ \E in \in env.inputs :
         BeginCall(t, Merge(IdleThread,
                            [ error_code |-> in[1], latency |-> in[2],
                              h_cb_raced |-> InCbReset,
                              h_cb_after |-> hist.cb.tripped,
                              h_cb_after_q |-> hist.cb.tripped_q ]), "long", hist)
    /\ env' = [env EXCEPT !.calls[t] = @ - 1]
    /\ UNCHANGED << flags, rec >>

\* if (_broken.load(relaxed)) return false;
LoadBroken(t) ==
    /\ thr[t].pc = "load_broken"
    /\ LET broken == rec[thr[t].win].broken
       IN  Step(t, IF ShortCircuit(broken)
                   THEN [ pc |-> "ret", ret |-> FALSE, h_read_broken |-> broken ]
                   ELSE IF thr[t].error_code = 0
                   THEN [ pc |-> "lat_load", h_read_broken |-> broken ]
                   ELSE [ pc |-> "load_ema_latency", h_read_broken |-> broken ])
    /\ UNCHANGED << flags, rec, env, hist >>

\* UpdateLatency: ema_latency = _ema_latency.load(); next_ema_latency = ...
LatLoad(t) ==
    /\ thr[t].pc = "lat_load"
    /\ LET r == rec[thr[t].win]
       IN  Step(t, [ pc |-> "lat_cas", expected |-> r.ema_latency,
                     next |-> NextEmaLatency(r.ema_latency, thr[t].latency,
                                             r.smooth) ])
    /\ UNCHANGED << flags, rec, env, hist >>

\* UpdateLatency: _ema_latency.compare_exchange_weak(ema_latency, next).
LatCas(t) ==
    /\ thr[t].pc = "lat_cas"
    /\ LET w == thr[t].win
       IN  \/ /\ rec[w].ema_latency = thr[t].expected
              /\ rec' = [rec EXCEPT ![w].ema_latency = thr[t].next]
              /\ Step(t, EnterUpdateErrorCost(SuccessErrorCost(thr[t].latency),
                                              thr[t].next))
           \/ \* another thread changed the field, or the weak CAS failed
              \* spuriously: the loop loads again
              /\ Step(t, [ pc |-> Retry("lat_load", "lat_cas") ])
              /\ UNCHANGED rec
    /\ UNCHANGED << flags, env, hist >>

\* ema_latency = _ema_latency.load(relaxed), on a failed call.
LoadEmaLatency(t) ==
    /\ thr[t].pc = "load_ema_latency"
    /\ Step(t, EnterUpdateErrorCost(thr[t].latency, rec[thr[t].win].ema_latency))
    /\ UNCHANGED << flags, rec, env, hist >>

\* UpdateErrorCost, errorous response: _ema_error_cost.fetch_add(error_cost).
CostAdd(t) ==
    /\ thr[t].pc = "cost_add"
    /\ LET w == thr[t].win
           r == rec[w]
           m == MaxErrorCost(thr[t].ema_latency, r.window_size,
                             r.max_error_percent)
       IN  /\ rec' = [rec EXCEPT ![w].ema_error_cost = @ + thr[t].error_cost]
           /\ Step(t, [ pc |-> "count_add", max_error_cost |-> m,
                        healthy |-> r.ema_error_cost + thr[t].error_cost <= m ])
    /\ UNCHANGED << flags, env, hist >>

\* UpdateErrorCost, ordinary response: ema_error_cost = _ema_error_cost.load().
CostLoad(t) ==
    /\ thr[t].pc = "cost_load"
    /\ LET r == rec[thr[t].win]
       IN  Step(t, IF r.ema_error_cost = 0
                   THEN [ pc |-> "count_add", healthy |-> TRUE ]
                   ELSE [ pc |-> "cost_cas", expected |-> r.ema_error_cost,
                          next |-> NextEmaErrorCost(r.ema_error_cost, r.smooth,
                                     flags.circuit_breaker_min_error_cost_us) ])
    /\ UNCHANGED << flags, rec, env, hist >>

\* UpdateErrorCost: _ema_error_cost.compare_exchange_weak(ema_error_cost, next).
CostCas(t) ==
    /\ thr[t].pc = "cost_cas"
    /\ LET w == thr[t].win
       IN  \/ /\ rec[w].ema_error_cost = thr[t].expected
              /\ rec' = [rec EXCEPT ![w].ema_error_cost = thr[t].next]
              /\ Step(t, [ pc |-> "count_add", healthy |-> TRUE ])
           \/ /\ Step(t, [ pc |-> Retry("cost_load", "cost_cas") ])
              /\ UNCHANGED rec
    /\ UNCHANGED << flags, env, hist >>

\* int sample_count = _sample_count.fetch_add(1, relaxed);
CountAdd(t) ==
    /\ thr[t].pc = "count_add"
    /\ LET w == thr[t].win
       IN  /\ rec' = [rec EXCEPT ![w].sample_count = FetchAddInt32(@)]
           /\ Step(t, [ pc |-> "load_init", sample_count |-> rec[w].sample_count ])
    /\ UNCHANGED << flags, env, hist >>

\* bool init_completed = _init_completed.load(acquire); and the tests after it.
LoadInit(t) ==
    /\ thr[t].pc = "load_init"
    /\ LET r == rec[thr[t].win]
           ic == r.init_completed
       IN  Step(t, IF ~ic /\ InitCompleted(ic, thr[t].sample_count, r.window_size)
                   THEN [ pc |-> "store_init" ]
                   ELSE AfterWarmUpCheck(ic, thr[t].healthy))
    /\ UNCHANGED << flags, rec, env, hist >>

\* _init_completed.store(true, release); init_completed = true;
StoreInit(t) ==
    /\ thr[t].pc = "store_init"
    /\ rec' = [rec EXCEPT ![thr[t].win].init_completed = TRUE]
    /\ Step(t, AfterWarmUpCheck(TRUE, thr[t].healthy))
    /\ UNCHANGED << flags, env, hist >>

\* _broken.store(true, relaxed); return healthy;
StoreBroken(t) ==
    /\ thr[t].pc = "store_broken"
    /\ rec' = [rec EXCEPT ![thr[t].win].broken = TRUE]
    /\ Step(t, [ pc |-> "ret", ret |-> Verdict(TRUE, thr[t].healthy) ])
    /\ UNCHANGED << flags, env, hist >>

\* EmaErrorRecorder::OnCallEnd returns into CircuitBreaker::OnCallEnd, which
\* evaluates "_long_window.OnCallEnd(..) && _short_window.OnCallEnd(..)".
RecorderReturn(t) ==
    /\ thr[t].pc = "ret"
    /\ LET w == thr[t].win
           r == thr[t]
           hs == [hist EXCEPT !.rec[w] =
                    [ @ EXCEPT !.tripped = @ \/ (~r.ret /\ ~InReset(w)),
                               !.tripped_q = @ \/ (~r.ret /\ ~r.h_raced) ]]
       IN  IF w = "long"
           THEN IF CallsShortWindow(r.ret)
                THEN BeginCall(t, Merge(r, [ long_done |-> TRUE,
                                             long_ret |-> r.ret ]), "short", hs)
                ELSE /\ thr' = [thr EXCEPT ![t] =
                              Merge(Frame(r), [ pc |-> "cb_ret", long_done |-> TRUE,
                                                long_ret |-> r.ret, cb_ret |-> FALSE ])]
                     /\ hist' = hs
           ELSE /\ thr' = [thr EXCEPT ![t] =
                         Merge(Frame(r), [ pc |-> "cb_ret", short_done |-> TRUE,
                                           short_ret |-> r.ret,
                                           cb_ret |-> Combine(r.long_ret, r.ret) ])]
                /\ hist' = hs
    /\ UNCHANGED << flags, rec, env >>

\* CircuitBreaker::OnCallEnd returns to its caller.
CallReturn(t) ==
    /\ thr[t].pc = "cb_ret"
    /\ hist' = [hist EXCEPT !.cb =
                 [ tripped |-> @.tripped \/ (~thr[t].cb_ret /\ ~InCbReset),
                   tripped_q |-> @.tripped_q
                                   \/ (~thr[t].cb_ret /\ ~thr[t].h_cb_raced) ]]
    /\ thr' = [thr EXCEPT ![t] = IdleThread]
    /\ UNCHANGED << flags, rec, env >>

(***************************************************************************)
(* CircuitBreaker::Reset(): _long_window.Reset(); _short_window.Reset().   *)
(***************************************************************************)
StartReset(t) ==
    /\ thr[t].pc = "idle"
    /\ env.resets[t] > 0
    /\ BeginReset(t, IdleThread, "long",
                  [u \in Threads |->
                     IF thr[u].pc \in CallPcs \cup {"cb_ret"}
                     THEN Merge(thr[u], [ h_cb_raced |-> TRUE, h_cb_after |-> FALSE,
                                          h_cb_after_q |-> FALSE ])
                     ELSE thr[u]],
                  [hist EXCEPT !.cb = NewCbHist])
    /\ env' = [env EXCEPT !.resets[t] = @ - 1]
    /\ UNCHANGED << flags, rec >>

\* One store of EmaErrorRecorder::Reset.
ResetStep(t, at, field, to) ==
    /\ thr[t].pc = at
    /\ rec' = [rec EXCEPT ![thr[t].win] = ResetStore(@, field)]
    /\ Step(t, [ pc |-> to ])
    /\ UNCHANGED << flags, env >>

\* _init_completed.store(false, relaxed);
RstInit(t) == ResetStep(t, "rst_init", "init_completed", "rst_count") /\ UNCHANGED hist
\* _sample_count.store(0, relaxed);
RstCount(t) == ResetStep(t, "rst_count", "sample_count", "rst_cost") /\ UNCHANGED hist
\* _ema_error_cost.store(0, relaxed);
RstCost(t) == ResetStep(t, "rst_cost", "ema_error_cost", "rst_lat") /\ UNCHANGED hist
\* _ema_latency.store(0, relaxed);
RstLat(t) == ResetStep(t, "rst_lat", "ema_latency", "rst_broken") /\ UNCHANGED hist
\* _broken.store(false, relaxed);
RstBroken(t) ==
    /\ ResetStep(t, "rst_broken", "broken", "rst_ret")
    /\ LET w == thr[t].win
           h == hist.rec[w]
       IN  hist' = [hist EXCEPT !.rec[w] =
                     [ h EXCEPT !.resets = IF h.clean THEN Min(@ + 1, 2) ELSE 0,
                                !.once = IF h.clean /\ h.resets = 0
                                         THEN rec'[w] ELSE @ ]]

\* EmaErrorRecorder::Reset returns into CircuitBreaker::Reset.
ResetReturn(t) ==
    /\ thr[t].pc = "rst_ret"
    /\ IF thr[t].win = "long"
       THEN BeginReset(t, thr[t], "short", thr, hist)
       ELSE /\ thr' = [thr EXCEPT ![t] = IdleThread]
            /\ UNCHANGED hist
    /\ UNCHANGED << flags, rec, env >>

(***************************************************************************)
(* Specifications.                                                         *)
(***************************************************************************)
Next ==
    \E t \in Threads :
        \/ StartCall(t)
        \/ LoadBroken(t)
        \/ LatLoad(t)
        \/ LatCas(t)
        \/ LoadEmaLatency(t)
        \/ CostAdd(t)
        \/ CostLoad(t)
        \/ CostCas(t)
        \/ CountAdd(t)
        \/ LoadInit(t)
        \/ StoreInit(t)
        \/ StoreBroken(t)
        \/ RecorderReturn(t)
        \/ CallReturn(t)
        \/ StartReset(t)
        \/ RstInit(t)
        \/ RstCount(t)
        \/ RstCost(t)
        \/ RstLat(t)
        \/ RstBroken(t)
        \/ ResetReturn(t)

\* Two threads, from construction.
Spec == Init /\ [][Next]_vars
\* One thread, from construction.
SpecSeq == InitSeq /\ [][Next]_vars
\* One thread, the concrete scenario's configuration.
SpecScenario == InitScenario /\ [][Next]_vars
\* Two threads, from the state 2^31 - 2 calls after construction.
SpecWrap == InitWrap /\ [][Next]_vars

\* A step of thread t inside CircuitBreaker::OnCallEnd or
\* CircuitBreaker::Reset (not the caller's decision to start one).
Run(t) ==
    \/ LoadBroken(t) \/ LatLoad(t) \/ LatCas(t) \/ LoadEmaLatency(t)
    \/ CostAdd(t) \/ CostLoad(t) \/ CostCas(t) \/ CountAdd(t)
    \/ LoadInit(t) \/ StoreInit(t) \/ StoreBroken(t)
    \/ RecorderReturn(t) \/ CallReturn(t)
    \/ RstInit(t) \/ RstCount(t) \/ RstCost(t) \/ RstLat(t)
    \/ RstBroken(t) \/ ResetReturn(t)

\* compare_exchange_weak succeeds: the loop is left.
LatCasSucceeds(t) == LatCas(t) /\ thr'[t].pc \notin {"lat_load", "lat_cas"}
CostCasSucceeds(t) == CostCas(t) /\ thr'[t].pc \notin {"cost_load", "cost_cas"}

\* Every thread inside an operation keeps being scheduled, and a
\* compare_exchange_weak that could succeed again and again does not fail
\* spuriously for ever.
Fairness ==
    \A t \in Threads :
        /\ WF_vars(Run(t))
        /\ SF_vars(LatCasSucceeds(t))
        /\ SF_vars(CostCasSucceeds(t))

\* Two threads, from construction, fairly scheduled.
SpecLive == InitLive /\ [][Next]_vars /\ Fairness

TypeOK ==
    /\ \A w \in Windows : rec[w].sample_count \in Int
    /\ \A t \in Threads : thr[t].pc \in CallPcs \cup RstPcs \cup {"idle", "off", "cb_ret"}

(***************************************************************************)
(* Properties.                                                             *)
(***************************************************************************)
\* The recorder thread t is in, and that recorder's history.
RecOf(t) == rec[thr[t].win]
HistOf(t) == hist.rec[thr[t].win]
\* Thread t is about to return from EmaErrorRecorder::OnCallEnd.
Returning(t) == thr[t].pc = "ret"
\* The epoch of t's recorder began at construction or with a Reset that
\* overlapped no call, and no Reset has overlapped a call since.
InCleanEpoch(t) == HistOf(t).clean

\* C1 (warm-up masking): in a recorder with window_size = N that is freshly
\* constructed, or was Reset with no call in flight, each of the first N-1
\* calls to OnCallEnd returns true, whatever error_code and latency are:
\* a call that returns while at most N-1 calls have begun returns true.
C1_WarmUpMasking ==
    \A t \in Threads :
        (Returning(t) /\ InCleanEpoch(t)
           /\ HistOf(t).calls <= RecOf(t).window_size - 1)
        => thr[t].ret = TRUE

\* A failed call among the first N-1 whose error cost is over the threshold
\* returns true.
C1_Witness ==
    \E t \in Threads :
        /\ Returning(t) /\ InCleanEpoch(t)
        /\ HistOf(t).calls <= RecOf(t).window_size - 1
        /\ thr[t].error_code # 0
        /\ thr[t].error_cost > thr[t].max_error_cost
        /\ ~thr[t].healthy
        /\ thr[t].ret

\* C2, as stated (sticky trip): once some OnCallEnd call on a recorder has
\* returned false (no Reset executing at that moment), every OnCallEnd call
\* on that recorder that starts afterwards returns false, as long as Reset
\* has not been called since.
C2_Original ==
    \A t \in Threads :
        (Returning(t) /\ thr[t].h_after) => thr[t].ret = FALSE

\* The same for a false return that no Reset overlapped.
C2_StickyReturns ==
    \A t \in Threads :
        (Returning(t) /\ thr[t].h_after_q) => thr[t].ret = FALSE

\* _broken goes from true to false only in the last store of Reset.
C2_ClearedOnlyByReset ==
    \A w \in Windows :
        (rec[w].broken /\ ~rec'[w].broken)
        => \E t \in Threads :
             /\ thr[t].pc = "rst_broken" /\ thr[t].win = w
             /\ thr'[t].pc = "rst_ret"

\* C2, amended (sticky trip): once an OnCallEnd call that no Reset
\* overlapped has returned false, every OnCallEnd call on that recorder that
\* starts afterwards returns false, until Reset is called; and no OnCallEnd
\* writes _broken back to false: it stays true until Reset stores false.
C2_StickyTrip == []C2_StickyReturns /\ [][C2_ClearedOnlyByReset]_vars

\* A call that began after such a false return, and would have been judged
\* healthy (a success), returns false while another thread is in a call.
C2_Witness ==
    \E t \in Threads :
        /\ Returning(t) /\ thr[t].h_after_q
        /\ thr[t].error_code = 0
        /\ RecOf(t).broken
        /\ thr[t].ret = FALSE
        /\ \E u \in Threads \ {t} : thr[u].pc \in CallPcs

\* The fields Reset stores are at their constructed values.
Zeroed(r) ==
    /\ r.init_completed = FALSE
    /\ r.sample_count = 0
    /\ r.ema_error_cost = 0
    /\ r.ema_latency = 0
    /\ r.broken = FALSE

\* Thread t is about to return from a Reset that overlapped no call.
ResetReturning(t) == thr[t].pc = "rst_ret" /\ HistOf(t).clean

\* C3 (Reset clears stickiness): when Reset returns on a recorder with
\* window_size = N, no call having overlapped it, the recorder is back in
\* warm-up (init_completed = false, broken = false, sample_count = 0, both
\* EMAs 0), and each of the next N-1 OnCallEnd calls returns true, also when
\* the recorder was broken right before the Reset.
C3_ResetClearsStickiness ==
    \A t \in Threads :
        /\ ResetReturning(t) => Zeroed(RecOf(t))
        /\ (Returning(t) /\ InCleanEpoch(t) /\ HistOf(t).by_reset
               /\ HistOf(t).calls <= RecOf(t).window_size - 1)
           => thr[t].ret = TRUE

\* After a Reset of a broken recorder, a failed call among the next N-1
\* whose error cost is over the threshold returns true.
C3_Witness ==
    \E t \in Threads :
        /\ Returning(t) /\ InCleanEpoch(t) /\ HistOf(t).by_reset
        /\ HistOf(t).was_broken
        /\ HistOf(t).calls <= RecOf(t).window_size - 1
        /\ thr[t].error_code # 0
        /\ ~thr[t].healthy
        /\ thr[t].ret

\* C4 (all-success stability): a recorder that has received only successful
\* calls (error_code = 0) since construction never trips: _broken is false
\* and every OnCallEnd on it returns true, during and after warm-up, the
\* calls being sequential or concurrent.
C4_AllSuccessStability ==
    \A w \in Windows :
        hist.rec[w].all_success
        => /\ ~rec[w].broken
           /\ \A t \in Threads :
                (Returning(t) /\ thr[t].win = w) => thr[t].ret = TRUE

\* A successful call returns true after warm-up, having run concurrently
\* with another call on the same recorder, only successes so far.
C4_Witness ==
    \E t \in Threads :
        /\ Returning(t) /\ HistOf(t).all_success
        /\ thr[t].init_completed /\ RecOf(t).init_completed
        /\ thr[t].ret
        /\ \E u \in Threads \ {t} :
             thr[u].pc \in CallPcs /\ thr[u].win = thr[t].win

\* Thread t is in CircuitBreaker::OnCallEnd, _long_window.OnCallEnd having
\* returned false.
LongReturnedFalse(t) == thr[t].long_done /\ ~thr[t].long_ret

\* The order of the two recorder calls, and the result after a false.
C5_LongFirst ==
    \A t \in Threads :
        /\ (thr[t].pc \in CallPcs /\ thr[t].win = "long")
           => (~thr[t].long_done /\ ~thr[t].short_done)
        /\ (thr[t].pc \in CallPcs /\ thr[t].win = "short")
           => (thr[t].long_done /\ thr[t].long_ret /\ ~thr[t].short_done)
        /\ LongReturnedFalse(t)
           => (thr[t].pc = "cb_ret" /\ ~thr[t].short_done /\ ~thr[t].cb_ret)

\* A step of a thread whose long-window call returned false leaves every
\* field of the short-window recorder as it was.
C5_ShortUntouched ==
    \A t \in Threads :
        (LongReturnedFalse(t) /\ thr'[t].pc # thr[t].pc)
        => rec'["short"] = rec["short"]

\* C5 (dual-window short-circuit): CircuitBreaker::OnCallEnd calls the
\* long-window recorder first; whenever that returns false the short-window
\* recorder's OnCallEnd is not invoked for the call, no field of the
\* short-window recorder is changed by the call, and
\* CircuitBreaker::OnCallEnd returns false.
C5_DualWindowShortCircuit == []C5_LongFirst /\ [][C5_ShortUntouched]_vars

\* CircuitBreaker::OnCallEnd is returning false after a false from the long
\* window, the short window being healthy and past no call of this thread.
C5_Witness ==
    \E t \in Threads :
        /\ thr[t].pc = "cb_ret" /\ LongReturnedFalse(t)
        /\ ~thr[t].cb_ret
        /\ ~rec["short"].broken
        /\ rec["short"].sample_count < rec["long"].sample_count

\* Thread t is about to return from CircuitBreaker::OnCallEnd.
CbReturning(t) == thr[t].pc = "cb_ret"

\* C6, as stated (the combined breaker is sticky): once
\* CircuitBreaker::OnCallEnd has returned false (no Reset executing at that
\* moment), every CircuitBreaker::OnCallEnd call that starts afterwards
\* returns false, as long as CircuitBreaker::Reset has not been called
\* since; and it returns true only when both recorders returned true.
C6_Original ==
    \A t \in Threads :
        /\ (CbReturning(t) /\ thr[t].h_cb_after) => thr[t].cb_ret = FALSE
        /\ (CbReturning(t) /\ thr[t].cb_ret)
           => (thr[t].long_done /\ thr[t].long_ret
                 /\ thr[t].short_done /\ thr[t].short_ret)

\* C6, amended (the combined breaker is sticky): once a
\* CircuitBreaker::OnCallEnd call that no CircuitBreaker::Reset overlapped
\* has returned false, every CircuitBreaker::OnCallEnd call that starts
\* afterwards returns false until CircuitBreaker::Reset is called; and
\* CircuitBreaker::OnCallEnd returns true only when both recorders returned
\* true for that call.
C6_CombinedSticky ==
    \A t \in Threads :
        /\ (CbReturning(t) /\ thr[t].h_cb_after_q) => thr[t].cb_ret = FALSE
        /\ (CbReturning(t) /\ thr[t].cb_ret)
           => (thr[t].long_done /\ thr[t].long_ret
                 /\ thr[t].short_done /\ thr[t].short_ret)

\* A call that began after such a false return finds the long window
\* healthy and returns false because the short window did.
C6_Witness ==
    \E t \in Threads :
        /\ CbReturning(t) /\ thr[t].h_cb_after_q
        /\ thr[t].long_done /\ thr[t].long_ret
        /\ thr[t].short_done /\ ~thr[t].short_ret
        /\ ~thr[t].cb_ret

\* C7 (nonnegative statistics): in every reachable state, after any
\* interleaving of OnCallEnd calls with nonnegative latencies and Reset
\* calls, _ema_latency, _ema_error_cost and _sample_count are nonnegative.
C7_NonNegative ==
    \A w \in Windows :
        /\ rec[w].ema_latency >= 0
        /\ rec[w].ema_error_cost >= 0
        /\ rec[w].sample_count >= 0

\* Thread t is about to return from the second, or a later, of Resets that
\* follow one another with no OnCallEnd between or during them.
SecondResetReturning(t) == ResetReturning(t) /\ HistOf(t).resets >= 2

\* C8 (Reset is idempotent): from any recorder state, Reset called twice in
\* a row with no OnCallEnd in between leaves the state one Reset leaves
\* (init_completed = false, sample_count = 0, both EMAs 0, broken = false),
\* and Reset changes none of window_size, max_error_percent and _smooth.
C8_ResetIdempotent ==
    \A t \in Threads :
        /\ SecondResetReturning(t)
           => (RecOf(t) = HistOf(t).once /\ Zeroed(RecOf(t)))
        /\ ResetReturning(t)
           => /\ RecOf(t).window_size = NewBreaker(flags)[thr[t].win].window_size
              /\ RecOf(t).max_error_percent
                   = NewBreaker(flags)[thr[t].win].max_error_percent
              /\ RecOf(t).smooth = NewBreaker(flags)[thr[t].win].smooth

\* The second Reset in a row returns on a recorder that was broken, with
\* warm-up complete, before the first.
C8_Witness ==
    \E t \in Threads :
        /\ SecondResetReturning(t)
        /\ HistOf(t).was_broken
        /\ RecOf(t) = HistOf(t).once

\* Thread t is about to return from a successful call that found the
\* recorder not broken, in a run of one thread.
SuccessReturning(t) ==
    /\ Returning(t) /\ thr[t].error_code = 0 /\ ~thr[t].h_pre_broken
    /\ \A u \in Threads \ {t} : thr[u].pc \in {"idle", "off"}

\* C9 (error-cost decay floor): after a successful OnCallEnd that ran with
\* no concurrent call on a recorder that was not broken, _ema_error_cost is
\* 0 if it was positive and below min_error_cost, the truncated product
\* _ema_error_cost * _smooth if it was at or above min_error_cost, and 0 if
\* it was 0.
C9_DecayFloor ==
    \A t \in Threads :
        SuccessReturning(t)
        => LET before == thr[t].h_pre_cost
               floor == flags.circuit_breaker_min_error_cost_us
               after == RecOf(t).ema_error_cost
           IN  /\ (before > 0 /\ before < floor) => after = 0
               /\ before >= floor
                  => after = (before * RecOf(t).smooth) \div SmoothDen
               /\ before = 0 => after = 0

\* A successful call found a positive error cost below the floor.
C9_Witness ==
    \E t \in Threads :
        /\ SuccessReturning(t)
        /\ thr[t].h_pre_cost > 0
        /\ thr[t].h_pre_cost < flags.circuit_breaker_min_error_cost_us
        /\ RecOf(t).ema_error_cost = 0

\* Thread t is about to return from the first failed call, of latency
\* 10000, made after 9 successes of latency 100 and a 10th call, in a run of
\* one thread with the scenario's flags.
ScenarioFailureReturning(t) ==
    /\ Returning(t) /\ InCleanEpoch(t)
    /\ RecOf(t).window_size = 10 /\ RecOf(t).max_error_percent = 10
    /\ flags.circuit_breaker_min_error_cost_us = 1
    /\ flags.circuit_breaker_max_failed_latency_mutliple = 2
    /\ HistOf(t).lead >= 9
    /\ thr[t].h_late /\ thr[t].error_code # 0 /\ thr[t].latency = 10000

\* C10 (concrete trip scenario): with window_size = 10, max_error_percent =
\* 10, min_error_cost = 1 and max_failed_latency_mutliple = 2, after 9
\* successes of latency 100 and a 10th call, the first later failure with
\* latency 10000 adds a cost of about 200 against a threshold of about 110:
\* that OnCallEnd returns false and leaves _broken true.
C10_ConcreteTrip ==
    \A t \in Threads :
        ScenarioFailureReturning(t)
        => /\ thr[t].error_cost >= 190 /\ thr[t].error_cost <= 210
           /\ thr[t].max_error_cost >= 100 /\ thr[t].max_error_cost <= 120
           /\ thr[t].ret = FALSE
           /\ RecOf(t).broken

\* The scenario's failure is returning false: the 11th call of the epoch.
C10_Witness ==
    \E t \in Threads :
        /\ ScenarioFailureReturning(t)
        /\ HistOf(t).calls = 11
        /\ thr[t].error_cost = 200 /\ thr[t].max_error_cost = 110
        /\ ~thr[t].ret /\ RecOf(t).broken

\* No thread is inside OnCallEnd or Reset.
Quiescent == \A t \in Threads : thr[t].pc \in {"idle", "off"}

\* C11, as stated (warm-up completion boundary): in a sequential run with
\* window_size = N the N-th OnCallEnd call since construction or Reset
\* completes warm-up, so _init_completed is true when it returns; and
\* whenever no OnCallEnd is in progress, sample_count >= window_size implies
\* _init_completed.
C11_Original ==
    /\ \A t \in Threads :
         (Returning(t) /\ InCleanEpoch(t)
            /\ HistOf(t).calls >= RecOf(t).window_size)
         => RecOf(t).init_completed
    /\ (~\E t \in Threads : thr[t].pc \in CallPcs \cup {"cb_ret"})
       => \A w \in Windows :
            rec[w].sample_count >= rec[w].window_size => rec[w].init_completed

\* C11, amended: in a sequential run with window_size = N the (N+1)-th
\* OnCallEnd call since construction or Reset is the one that completes
\* warm-up (the count is compared before it is incremented): _init_completed
\* is false when calls 1..N return and true when call N+1 and later ones
\* return; and in such a run, between operations, sample_count >
\* window_size implies _init_completed.
C11_WarmUpBoundary ==
    /\ \A t \in Threads :
         (Returning(t) /\ InCleanEpoch(t))
         => (RecOf(t).init_completed
               <=> HistOf(t).calls >= RecOf(t).window_size + 1)
    /\ Quiescent
       => \A w \in Windows :
            rec[w].sample_count > rec[w].window_size => rec[w].init_completed

\* Call N+1 of an epoch that began with a Reset returns, warm-up complete.
C11_Witness ==
    \E t \in Threads :
        /\ Returning(t) /\ InCleanEpoch(t) /\ HistOf(t).by_reset
        /\ HistOf(t).calls = RecOf(t).window_size + 1
        /\ thr[t].sample_count = RecOf(t).window_size
        /\ RecOf(t).init_completed

\* Thread t is about to return from a failed call that found the recorder
\* not broken and ran with no other thread active.
FailureReturning(t) ==
    /\ Returning(t) /\ thr[t].error_code # 0 /\ ~thr[t].h_pre_broken
    /\ \A u \in Threads \ {t} : thr[u].pc \in {"idle", "off"}

\* The cost the claims give a failed call: min(ema_latency * multiple, latency).
ClaimedCost(t) ==
    Min(RecOf(t).ema_latency * flags.circuit_breaker_max_failed_latency_mutliple,
        thr[t].latency)

\* ema_error_cost + cost <= ema_latency * window_size * percent/100 * 1.1,
\* on integers.
ClaimedHealthy(t) ==
    (thr[t].h_pre_cost + ClaimedCost(t)) * 1000
      <= RecOf(t).ema_latency * RecOf(t).window_size
           * RecOf(t).max_error_percent * 11

\* C12 (failure verdict): for every failed call (any latency >= 0, 0
\* included) on a recorder that is not broken, healthy is (ema_error_cost
\* after adding the cost) <= threshold, with cost = min(ema_latency *
\* max_failed_latency_mutliple, latency) and threshold = ema_latency *
\* window_size * max_error_percent/100 * (1 + EPSILON); a failed call made
\* after warm-up whose ema_error_cost exceeds the threshold returns false and
\* sets _broken.
C12_FailureVerdict ==
    \A t \in Threads :
        FailureReturning(t)
        => /\ thr[t].healthy <=> ClaimedHealthy(t)
           /\ (thr[t].init_completed /\ ~ClaimedHealthy(t))
              => (thr[t].ret = FALSE /\ RecOf(t).broken)

\* C13 (only successes decay the error cost): a failed call never decreases
\* _ema_error_cost and never changes _ema_latency; after a failed call that
\* ran alone, _ema_error_cost is its previous value plus min(ema_latency *
\* max_failed_latency_mutliple, latency).
C13_FailureOnlyAdds ==
    \A t \in Threads :
        FailureReturning(t)
        => /\ RecOf(t).ema_error_cost >= thr[t].h_pre_cost
           /\ RecOf(t).ema_latency = thr[t].h_pre_latency
           /\ RecOf(t).ema_error_cost = thr[t].h_pre_cost + ClaimedCost(t)

\* A call that read _broken = true goes straight to "return false".
C14_ReturnsFalse ==
    \A t \in Threads :
        thr[t].h_read_broken => (Returning(t) /\ thr[t].ret = FALSE)

\* The load that reads true, and every later step of that call, leaves the
\* recorder's fields as they are.
C14_RecorderUntouched ==
    \A t \in Threads :
        (\/ thr[t].pc = "load_broken" /\ thr'[t].h_read_broken
         \/ thr[t].h_read_broken /\ thr'[t].pc # thr[t].pc)
        => rec'[thr[t].win] = rec[thr[t].win]

\* C14 (broken short-circuit leaves state untouched): an OnCallEnd call that
\* reads _broken = true at its start returns false and changes none of
\* sample_count, ema_latency, ema_error_cost, init_completed and broken,
\* whatever error_code and latency are.
C14_BrokenShortCircuit == []C14_ReturnsFalse /\ [][C14_RecorderUntouched]_vars

\* A successful call read _broken = true and is returning false while
\* another thread is inside a call on the same recorder.
C14_Witness ==
    \E t \in Threads :
        /\ Returning(t) /\ thr[t].h_read_broken
        /\ thr[t].error_code = 0 /\ thr[t].latency > 0
        /\ thr[t].ret = FALSE
        /\ \E u \in Threads \ {t} :
             thr[u].pc \in CallPcs /\ thr[u].win = thr[t].win

\* A compare-and-retry iteration fails only when the field no longer holds
\* the value the iteration loaded.
C15_FailsOnlyWhenChanged ==
    \A t \in Threads :
        /\ (thr[t].pc = "lat_cas" /\ thr'[t].pc = "lat_load")
           => RecOf(t).ema_latency # thr[t].expected
        /\ (thr[t].pc = "cost_cas" /\ thr'[t].pc = "cost_load")
           => RecOf(t).ema_error_cost # thr[t].expected

\* Every CircuitBreaker::OnCallEnd and Reset in progress returns: whatever
\* has happened, a state follows in which no thread is inside an operation.
C15_EveryCallReturns == []<>Quiescent

\* C15, as stated (lock-free progress): a compare-and-retry iteration in
\* UpdateLatency or in the decay loop of UpdateErrorCost fails only because
\* another thread changed the same field in between; with finitely many
\* concurrent OnCallEnd and Reset calls and fair scheduling every OnCallEnd
\* call eventually returns.
C15_Original == [][C15_FailsOnlyWhenChanged]_vars /\ C15_EveryCallReturns

\* C15, amended (lock-free progress): no operation blocks; a
\* compare-and-retry iteration fails because another thread changed the same
\* field in between or because compare_exchange_weak failed spuriously; with
\* finitely many concurrent OnCallEnd and Reset calls, fair scheduling and a
\* compare_exchange_weak that does not fail spuriously for ever, every
\* OnCallEnd call eventually returns, and so does every Reset.
C15_LockFreeProgress ==
    \A t \in Threads : []<>(thr[t].pc \in {"idle", "off"})

\* A thread is about to retry UpdateLatency's exchange because another
\* thread changed _ema_latency after it was loaded.
C15_Witness ==
    \E t \in Threads :
        /\ thr[t].pc = "lat_cas"
        /\ RecOf(t).ema_latency # thr[t].expected
        /\ \E u \in Threads \ {t} :
             thr[u].pc \in CallPcs /\ thr[u].win = thr[t].win

\* C16 (Reset racing with calls in flight): once a Reset of a recorder and
\* every OnCallEnd call that overlapped it have returned, no call having
\* begun since the Reset began, the recorder is not broken: _broken is not
\* set again by a call that started before the Reset.
C16_NotRelatched ==
    \A w \in Windows :
        (/\ hist.rec[w].by_reset /\ hist.rec[w].calls = 0
         /\ ~InCall(w) /\ ~InReset(w))
        => ~rec[w].broken

\* C17 (warm-up flag and sample count): in every reachable state, under any
\* interleaving of OnCallEnd and Reset calls, _init_completed = true implies
\* _sample_count >= _window_size.
C17_WarmUpImpliesSamples ==
    \A w \in Windows :
        rec[w].init_completed => rec[w].sample_count >= rec[w].window_size

\* C18 (error cost decays to exactly zero): on a recorder that is not
\* broken, with only successful calls arriving (no failure, no Reset, one
\* call at a time), each call leaves _ema_error_cost strictly smaller than
\* it found it while it was positive, never negative, and leaves it 0 when
\* it found it 0; so 0 is reached after finitely many calls and then kept.
C18_DecayToZero ==
    \A t \in Threads :
        SuccessReturning(t)
        => LET before == thr[t].h_pre_cost
               after == RecOf(t).ema_error_cost
           IN  /\ before > 0 => (0 <= after /\ after < before)
               /\ before = 0 => after = 0

\* The second successful call in a row that found a positive error cost
\* leaves it at exactly 0: the cost went down in two steps.
C18_Witness ==
    \E t \in Threads :
        /\ SuccessReturning(t)
        /\ HistOf(t).decays = 2
        /\ thr[t].h_pre_cost > 0
        /\ RecOf(t).ema_error_cost = 0

\* C19 (failures while _ema_latency is 0): on a recorder that has received
\* only failed calls (error_code # 0, latency >= 0) since construction,
\* _ema_latency and _ema_error_cost are 0, every call computes the cost 0,
\* _broken is never set and every OnCallEnd returns true, during and after
\* warm-up, the calls being sequential or concurrent.
C19_OnlyFailures ==
    \A w \in Windows :
        hist.rec[w].all_failed
        => /\ rec[w].ema_latency = 0
           /\ rec[w].ema_error_cost = 0
           /\ ~rec[w].broken
           /\ \A t \in Threads :
                (thr[t].pc \in CallPcs /\ thr[t].win = w)
                => /\ thr[t].error_cost = 0
                   /\ thr[t].pc \notin {"cost_add", "store_broken"}
                   /\ Returning(t) => thr[t].ret = TRUE

\* A failed call returns true after warm-up, only failures so far.
C19_Witness ==
    \E t \in Threads :
        /\ Returning(t) /\ HistOf(t).all_failed
        /\ thr[t].error_code # 0 /\ thr[t].latency > 0
        /\ HistOf(t).calls > RecOf(t).window_size
        /\ thr[t].init_completed /\ RecOf(t).init_completed
        /\ thr[t].ret

\* _broken of a recorder goes from false to true only in the store of line
\* 91, made by a failed call whose local init_completed is true.
C20_TrippedByFailure ==
    \A w \in Windows :
        (~rec[w].broken /\ rec'[w].broken)
        => \E t \in Threads :
             /\ thr[t].pc = "store_broken" /\ thr'[t].pc = "ret"
             /\ thr[t].win = w
             /\ thr[t].error_code # 0
             /\ thr[t].init_completed

\* A successful call that read _broken = false never gets to the store of
\* _broken and returns true.
C20_SuccessReturnsTrue ==
    \A t \in Threads :
        (/\ thr[t].pc \in CallPcs \ {"load_broken"}
         /\ thr[t].error_code = 0 /\ ~thr[t].h_read_broken)
        => /\ thr[t].pc # "store_broken"
           /\ Returning(t) => thr[t].ret = TRUE

\* C20 (only a failed call can trip an estimator): _broken changes from
\* false to true only inside an OnCallEnd call with error_code # 0 that
\* observed init_completed = true; a successful call (error_code = 0,
\* latency >= 0) that read _broken = false returns true and never writes
\* _broken, even when _ema_error_cost is far above the trip threshold.
C20_OnlyFailureTrips == []C20_SuccessReturnsTrue /\ [][C20_TrippedByFailure]_vars

\* A successful call returns true after warm-up while _ema_error_cost is
\* more than twice the threshold a failure would be judged against.
C20_Witness ==
    \E t \in Threads :
        /\ Returning(t) /\ thr[t].error_code = 0 /\ ~thr[t].h_read_broken
        /\ thr[t].init_completed
        /\ RecOf(t).ema_latency > 0
        /\ RecOf(t).ema_error_cost >
             2 * MaxErrorCost(RecOf(t).ema_latency, RecOf(t).window_size,
                              RecOf(t).max_error_percent)
        /\ thr[t].ret /\ ~RecOf(t).broken

=============================================================================
